---- MODULE Spec2Model ----
(***************************************************************************)
(* A model of aliciadata-chat: the chat store (src/src/database.py), the   *)
(* model streaming client (src/src/chat_service.py), the prompt renderer   *)
(* (src/src/prompt_loader.py) and the turn orchestration and page load     *)
(* (src/src/main.py).                                                      *)
(*                                                                         *)
(* Text is a sequence of tokens (strings); concatenation is \o.  A row of  *)
(* the chats table is a record with the columns the SELECT of              *)
(* get_session_history names.                                              *)
(***************************************************************************)
EXTENDS Naturals, Integers, Sequences, FiniteSets, TLC

VARIABLES
    chats,          \* the chats table, in insertion order (database.py:127-133)
    appended,       \* per session: number of save_message calls that returned True
    lastRead,       \* the last get_session_history call of the store's own callers
    \* one page's chat (main.py: chat_function and the UI state it is wired to)
    chatbot,        \* the transcript the UI holds: a list of [user, assistant] pairs
    pc,             \* where the running chat_function call stands
    message,        \* chat_function's argument
    history,        \* chat_function's local transcript
    api_messages,   \* what format_message_history returned
    system_prompt,  \* the prompt of the turn
    full_response,  \* chat_function's accumulation of the chunks
    stream_full,    \* stream_message's own full_response
    yielded,        \* the chunks stream_message has yielded
    stream_ret,     \* the value stream_message returned
    stream_state,   \* stream_message's generator: "unstarted", "open", "ended", "failed"
    trace,          \* what the call has done so far: store calls, model call, snapshots
    turns,          \* turns with a non-empty message started so far
    externals,      \* rows written by other pages so far
    faults,         \* store calls of the page that failed so far
    \* prompt_loader.py and the UI state that feeds it
    template_cache, \* prompt_loader._template_cache
    template_file,  \* the template file on disk: a template, or Missing
    resume,         \* the page's resume text
    jd,             \* the page's job description text
    \* main.py: startup and page load
    app_started,    \* whether initialize_app has run
    app_initialized,        \* main.app_initialized
    initialization_error,   \* main.initialization_error
    documents,      \* the documents table: name -> (resume, jd)
    page,           \* the last page load: its request and what it returned
    \* database.py: the connection pool, under concurrent store calls
    pool_created,   \* whether database.connection_pool is set
    pool_free,      \* the pool's idle connections
    pool_used,      \* the pool's checked-out connections
    worker,         \* per worker: the store call it is in
    last_return     \* how the last store call of a worker ended

storeVars == <<chats, appended, lastRead>>
turnVars == <<chatbot, pc, message, history, api_messages, system_prompt,
              full_response, stream_full, yielded, stream_ret, stream_state, trace,
              turns, externals, faults>>
promptVars == <<template_cache, template_file, resume, jd>>
loadVars == <<app_started, app_initialized, initialization_error, documents, page>>
poolVars == <<pool_created, pool_free, pool_used, worker, last_return>>
vars == <<storeVars, turnVars, promptVars, loadVars, poolVars>>

(***************************************************************************)
(* Bounds of the model.                                                    *)
(***************************************************************************)
MaxRows == 3        \* rows the chats table may hold
MaxTime == 1        \* timestamps and created_at values are 0..MaxTime
MaxTurns == 2       \* turns with a non-empty message of the page
MaxChunks == 2      \* text chunks one stream may deliver
MaxExternal == 1    \* rows other pages write while the page chats
MaxFaults == 1      \* store calls of the page that fail
NumWorkers == 4     \* threads that call the store at the same time

Times == 0..MaxTime
Sessions == {"s1", "s2"}
MessageTypes == {"system", "user", "assistant"}

\* Python's None, and a value that is not None.
None == [none |-> TRUE]
Some(v) == [none |-> FALSE, val |-> v]

(***************************************************************************)
(* Faults of a store operation, by the place that raises.                  *)
(***************************************************************************)
Faults == {"ok", "config", "exhausted", "query"}

(***************************************************************************)
(* database.py                                                             *)
(***************************************************************************)

\* The row an INSERT of save_message adds: id and created_at are the store's.
NewRow(table, session_uuid, message_type, contents, timestamp, created_at) ==
    [id |-> Len(table) + 1, timestamp |-> timestamp, session_uuid |-> session_uuid,
     message_type |-> message_type, contents |-> contents, created_at |-> created_at]

\* save_message without its outer except branch: a fault raises into the caller.
SaveMessageNoCatch(table, session_uuid, message_type, contents, timestamp, created_at, fault) ==
    IF fault = "ok"
    THEN [ret |-> TRUE, raised |-> FALSE,
          table |-> Append(table, NewRow(table, session_uuid, message_type, contents,
                                         timestamp, created_at))]
    ELSE [ret |-> FALSE, raised |-> TRUE, table |-> table]

\* save_message: the outer try/except turns every fault into the result False;
\* the row is committed only when nothing raised.
SaveMessage(table, session_uuid, message_type, contents, timestamp, created_at, fault) ==
    IF fault = "ok"
    THEN [ret |-> TRUE, raised |-> FALSE,
          table |-> Append(table, NewRow(table, session_uuid, message_type, contents,
                                         timestamp, created_at))]
    ELSE [ret |-> FALSE, raised |-> FALSE, table |-> table]

\* ORDER BY timestamp ASC
OrderKeyByTimestamp(r, q) == r.timestamp <= q.timestamp

\* ORDER BY timestamp ASC, created_at ASC
OrderKeyLeq(r, q) ==
    \/ r.timestamp < q.timestamp
    \/ r.timestamp = q.timestamp /\ r.created_at <= q.created_at

\* Every listing of the rows R in the ORDER BY order (rows with equal keys come
\* in an order the store chooses).
RECURSIVE OrderedListings(_)
OrderedListings(R) ==
    IF R = {} THEN {<< >>}
    ELSE UNION {{<<m>> \o t : t \in OrderedListings(R \ {m})} :
                m \in {r \in R : \A q \in R : OrderKeyLeq(r, q)}}

\* WHERE session_uuid = %s
SessionRows(table, session_uuid) ==
    {table[i] : i \in {j \in 1..Len(table) : table[j].session_uuid = session_uuid}}

\* get_session_history without its ORDER BY: the rows in insertion order.
HistoryResultsUnordered(table, session_uuid, fault) ==
    IF fault = "ok"
    THEN {[ret |-> Some(h), raised |-> FALSE]
            : h \in {SelectSeq(table, LAMBDA r : r.session_uuid = session_uuid)}}
    ELSE {[ret |-> None, raised |-> FALSE]}

\* get_session_history: the results the call can return.
HistoryResults(table, session_uuid, fault) ==
    IF fault = "ok"
    THEN {[ret |-> Some(h), raised |-> FALSE]
            : h \in OrderedListings(SessionRows(table, session_uuid))}
    ELSE {[ret |-> None, raised |-> FALSE]}


(***************************************************************************)
(* The store on its own: any caller appending to and reading any session.  *)
(***************************************************************************)
StoreContents == {<<"m">>}

InitStore ==
    /\ chats = << >>
    /\ appended = [s \in Sessions |-> 0]
    /\ lastRead = None

\* A call of save_message(session_uuid, message_type, contents, timestamp).
StoreSave ==
    \E s \in Sessions, ty \in {"user", "assistant"}, c \in StoreContents,
       ts \in Times, ca \in Times, fault \in Faults :
        LET r == SaveMessage(chats, s, ty, c, ts, ca, fault) IN
        /\ Len(chats) < MaxRows
        /\ chats' = r.table
        /\ appended' = IF r.ret THEN [appended EXCEPT ![s] = @ + 1] ELSE appended
        /\ UNCHANGED lastRead
        /\ UNCHANGED <<turnVars, promptVars, loadVars, poolVars>>

\* A call of get_session_history(session_uuid).
StoreRead ==
    \E s \in Sessions, fault \in Faults :
        \E r \in HistoryResults(chats, s, fault) :
            /\ lastRead' = [none |-> FALSE, session |-> s, ret |-> r.ret,
                            nAppended |-> appended[s], tableLen |-> Len(chats)]
            /\ UNCHANGED <<chats, appended>>
            /\ UNCHANGED <<turnVars, promptVars, loadVars, poolVars>>

NextStore == StoreSave \/ StoreRead

\* C3: a get_session_history(s) that returns after N successful save_message
\* calls for s (interleaved in any way with saves to other sessions) returns
\* exactly those N rows, none of another session, ascending by
\* (timestamp, created_at).
C3_HistoryExactAndOrdered ==
    (~lastRead.none /\ ~lastRead.ret.none) =>
        LET h == lastRead.ret.val
            s == lastRead.session
        IN  /\ Len(h) = lastRead.nAppended
            /\ \A i \in 1..Len(h) : h[i].session_uuid = s
            /\ {h[i] : i \in 1..Len(h)}
                 = {chats[k] : k \in {j \in 1..lastRead.tableLen : chats[j].session_uuid = s}}
            /\ \A i \in 1..Len(h) : \A j \in 1..Len(h) : i # j => h[i] # h[j]
            /\ \A i \in 1..Len(h) : \A j \in 1..Len(h) :
                    i < j => \/ h[i].timestamp < h[j].timestamp
                             \/ /\ h[i].timestamp = h[j].timestamp
                                /\ h[i].created_at <= h[j].created_at

\* A read that returned two rows of its session whose insertion order is not
\* the returned order, while the table also holds a row of another session.
C3_Witness ==
    /\ ~lastRead.none
    /\ ~lastRead.ret.none
    /\ Len(lastRead.ret.val) >= 2
    /\ lastRead.ret.val[1].id > lastRead.ret.val[2].id
    /\ \E k \in 1..lastRead.tableLen : chats[k].session_uuid # lastRead.session


(***************************************************************************)
(* database.py: the connection pool.  Every store function takes a         *)
(* connection (getconn), runs its query in a try block and gives the       *)
(* connection back in the finally block (putconn).                         *)
(***************************************************************************)
MinConn == 1
MaxConn == 3

Workers == 1..NumWorkers
ConnIds == 1..NumWorkers
StoreOps == {"save_message", "get_session_history", "get_document_by_name",
             "test_connection"}
IdleWorker == [pc |-> "idle", op |-> "none", conn |-> 0, ok |-> TRUE]

\* get_connection_pool: the pool that exists, or a new one with MinConn
\* connections; raises when the configuration is missing or the database
\* cannot be reached.
get_connection_pool(created, free, fault) ==
    IF created THEN [raised |-> FALSE, created |-> TRUE, free |-> free]
    ELSE IF fault \in {"config", "connect"}
         THEN [raised |-> TRUE, created |-> FALSE, free |-> free]
         ELSE [raised |-> FALSE, created |-> TRUE, free |-> 1..MinConn]

\* pool_instance.getconn(): an idle connection, or a new one while fewer than
\* MaxConn are checked out; raises when MaxConn are checked out or the new
\* connection cannot be opened.
GetConn(free, used, fault) ==
    IF free # {}
    THEN LET c == CHOOSE x \in free : TRUE
         IN  [raised |-> FALSE, conn |-> c, free |-> free \ {c}, used |-> used \cup {c}]
    ELSE IF Cardinality(used) = MaxConn \/ fault = "connect"
         THEN [raised |-> TRUE, conn |-> 0, free |-> free, used |-> used]
         ELSE LET c == CHOOSE x \in ConnIds \ used : TRUE
              IN  [raised |-> FALSE, conn |-> c, free |-> free, used |-> used \cup {c}]

\* pool_instance.putconn(conn): the connection is idle again, or closed when
\* the pool already keeps MinConn idle ones.
PutConn(free, used, conn) ==
    [free |-> IF Cardinality(free) < MinConn THEN free \cup {conn} ELSE free,
     used |-> used \ {conn}]

\* putconn after the query instead of in a finally block.
ReleaseOnSuccessOnly(free, used, conn, ok) ==
    IF ok THEN PutConn(free, used, conn) ELSE [free |-> free, used |-> used]

\* The finally block of a store function: putconn runs however the query ended.
ReleaseOnExit(free, used, conn, ok) ==
    PutConn(free, used, conn)

\* A store function is called: get_connection_pool() and getconn().  When
\* either raises, the function's except branch returns at once.
StoreCallBegin ==
    \E w \in Workers, op \in StoreOps, fault \in {"ok", "config", "connect"} :
        LET p == get_connection_pool(pool_created, pool_free, fault)
            g == GetConn(p.free, pool_used, fault)
        IN  /\ worker[w].pc = "idle"
            /\ pool_created' = p.created
            /\ IF p.raised
               THEN /\ last_return' = "no_pool"
                    /\ UNCHANGED <<pool_free, pool_used, worker>>
               ELSE IF g.raised
               THEN /\ last_return' = IF fault = "connect" THEN "no_connection"
                                      ELSE "exhausted"
                    /\ pool_free' = p.free
                    /\ UNCHANGED <<pool_used, worker>>
               ELSE /\ pool_free' = g.free
                    /\ pool_used' = g.used
                    /\ worker' = [worker EXCEPT ![w] =
                                    [pc |-> "query", op |-> op, conn |-> g.conn, ok |-> TRUE]]
                    /\ UNCHANGED last_return
            /\ UNCHANGED <<storeVars, turnVars, promptVars, loadVars>>

\* The query of the store function runs: it succeeds or raises.
StoreCallQuery ==
    \E w \in Workers, ok \in BOOLEAN :
        /\ worker[w].pc = "query"
        /\ worker' = [worker EXCEPT ![w].pc = "release", ![w].ok = ok]
        /\ UNCHANGED <<pool_created, pool_free, pool_used, last_return>>
        /\ UNCHANGED <<storeVars, turnVars, promptVars, loadVars>>

\* The store function leaves its try block and returns.
StoreCallReturn ==
    \E w \in Workers :
        LET r == ReleaseOnExit(pool_free, pool_used, worker[w].conn, worker[w].ok) IN
        /\ worker[w].pc = "release"
        /\ pool_free' = r.free
        /\ pool_used' = r.used
        /\ last_return' = IF worker[w].ok THEN "ok" ELSE "query_error"
        /\ worker' = [worker EXCEPT ![w] = IdleWorker]
        /\ UNCHANGED pool_created
        /\ UNCHANGED <<storeVars, turnVars, promptVars, loadVars>>

InitPool ==
    /\ pool_created = FALSE
    /\ pool_free = {}
    /\ pool_used = {}
    /\ worker = [w \in Workers |-> IdleWorker]
    /\ last_return = "none"

NextPool == StoreCallBegin \/ StoreCallQuery \/ StoreCallReturn

(***************************************************************************)
(* chat_service.py                                                         *)
(***************************************************************************)

\* format_message_history without its skip of system rows.
RECURSIVE FormatKeepsSystemRows(_)
FormatKeepsSystemRows(db_messages) ==
    IF db_messages = << >> THEN << >>
    ELSE <<[role |-> IF Head(db_messages).message_type = "assistant"
                     THEN "assistant" ELSE "user",
            content |-> Head(db_messages).contents]>>
         \o FormatKeepsSystemRows(Tail(db_messages))

\* format_message_history: system rows are skipped, user and assistant rows
\* become role/content entries, in the order given.
RECURSIVE format_message_history(_)
format_message_history(db_messages) ==
    IF db_messages = << >> THEN << >>
    ELSE LET msg == Head(db_messages)
             rest == format_message_history(Tail(db_messages))
         IN  IF msg.message_type = "system" THEN rest
             ELSE IF msg.message_type \in {"user", "assistant"}
                  THEN <<[role |-> msg.message_type, content |-> msg.contents]>> \o rest
                  ELSE rest

\* stream_message's except branch: error_msg = f"Error during streaming: {str(e)}"
ErrorMsg(e) == <<"Error during streaming: ", e>>

\* The value stream_message returns when the stream ends normally (line 107).
StreamReturnValue(acc) == acc

\* The value stream_message returns from its except branch (line 113).
StreamErrorReturnValue(acc, error_msg) == error_msg


(***************************************************************************)
(* prompt_loader.py                                                        *)
(***************************************************************************)

\* A template is a list of parts: literal text, or a {{name}} tag.  A template
\* pystache cannot parse is marked malformed.
Lit(t) == <<"lit", t>>
Tag(name) == <<"tag", name>>
Missing == [missing |-> TRUE]
Template(malformed, parts) == [missing |-> FALSE, malformed |-> malformed, parts |-> parts]

\* The template of the text "" that chat_function hands to render_prompt.
EmptyTemplate == Template(FALSE, << >>)

\* os.getenv("APPLICANT_EMAIL", "")
ApplicantEmail == <<"a@b.c">>

\* pystache escapes the value of a {{name}} tag as HTML.
EscapeToken(c) ==
    CASE c = "&" -> "&amp;"
      [] c = "<" -> "&lt;"
      [] c = ">" -> "&gt;"
      [] c = "\"" -> "&quot;"
      [] OTHER -> c

Escape(text) == [i \in 1..Len(text) |-> EscapeToken(text[i])]

\* pystache.render(template, context) of a template that parses.
RECURSIVE RenderParts(_, _)
RenderParts(parts, context) ==
    IF parts = << >> THEN << >>
    ELSE LET part == Head(parts)
             out == IF part[1] = "lit" THEN part[2] ELSE Escape(context[part[2]])
         IN  out \o RenderParts(Tail(parts), context)

\* The except branch of render_prompt: the hardcoded prompt.
FallbackPrompt(r, j) ==
    <<"You are a helpful career advisor assistant reviewing a resume against a job description.",
      "RESUME:">> \o r \o <<"JOB DESCRIPTION:">> \o j
      \o <<"Please provide thoughtful, specific feedback to help the hiring manager evaluate fit for this position.">>

\* render_prompt(template, resume, jd): pystache's rendering, or the hardcoded
\* prompt when pystache raises.
render_prompt(template, r, j) ==
    IF template.malformed
    THEN FallbackPrompt(r, j)
    ELSE RenderParts(template.parts, [resume |-> r, jd |-> j, email |-> ApplicantEmail])

\* load_template: the cached template, or the file's, which is then cached;
\* None (and nothing cached) when the file cannot be read.
load_template(cache, file) ==
    IF ~cache.none THEN [ret |-> cache, cache |-> cache]
    ELSE IF file.missing THEN [ret |-> None, cache |-> cache]
    ELSE [ret |-> Some(file), cache |-> Some(file)]

\* get_system_prompt(resume, jd): None when the template does not load.
get_system_prompt(cache, file, r, j) ==
    LET t == load_template(cache, file) IN
    IF t.ret.none THEN [ret |-> None, cache |-> t.cache]
    ELSE [ret |-> Some(render_prompt(t.ret.val, r, j)), cache |-> t.cache]

\* chat_function, lines 157-162: the system prompt of the turn.
ChatSystemPrompt(cache, file, r, j) ==
    LET p == get_system_prompt(cache, file, r, j) IN
    IF p.ret.none
    THEN [prompt |-> render_prompt(EmptyTemplate, r, j), cache |-> p.cache]
    ELSE [prompt |-> p.ret.val, cache |-> p.cache]

\* Whether text sub occurs in text t, token by token.
Contains(t, sub) ==
    \E i \in 0..Len(t) :
        /\ i + Len(sub) <= Len(t)
        /\ \A k \in 1..Len(sub) : t[i + k] = sub[k]


(***************************************************************************)
(* Python's str.strip().                                                   *)
(***************************************************************************)
Whitespace == {" ", "\t", "\n"}

\* str.strip()
RECURSIVE LStrip(_)
LStrip(t) ==
    IF t = << >> THEN << >>
    ELSE IF Head(t) \in Whitespace THEN LStrip(Tail(t)) ELSE t

RECURSIVE RStrip(_)
RStrip(t) ==
    IF t = << >> THEN << >>
    ELSE IF t[Len(t)] \in Whitespace THEN RStrip(SubSeq(t, 1, Len(t) - 1)) ELSE t

Strip(t) == RStrip(LStrip(t))

(***************************************************************************)
(* main.py: startup and page load.                                         *)
(***************************************************************************)

\* startup_checks: the first check that fails decides the error.
\* missing_vars is the list of unset variables; db and api are how
\* test_connection and validate_api_key end: "ok", "false" or "raise".
startup_checks(missing_vars, db, api, template_exists) ==
    IF missing_vars # << >>
    THEN <<FALSE, Some(<<"Missing required environment variables: ">> \o missing_vars)>>
    ELSE IF db = "false"
    THEN <<FALSE, Some(<<"Unable to connect to database. Please check configuration.">>)>>
    ELSE IF db = "raise"
    THEN <<FALSE, Some(<<"Database connection error: ", "e">>)>>
    ELSE IF api = "false"
    THEN <<FALSE, Some(<<"Unable to connect to Claude API. Please check API key.">>)>>
    ELSE IF api = "raise"
    THEN <<FALSE, Some(<<"Claude API error: ", "e">>)>>
    ELSE IF ~template_exists
    THEN <<FALSE, Some(<<"System prompt template not found at prompts/chat_system.mustache">>)>>
    ELSE <<TRUE, None>>

\* get_document_by_name: the row of the name, or None when there is none or
\* the lookup fails.
get_document_by_name(table, name, fault) ==
    IF fault = "ok" /\ name \in DOMAIN table
    THEN [ret |-> Some(table[name]), raised |-> FALSE]
    ELSE [ret |-> None, raised |-> FALSE]

\* str(x) of an Optional[str] inside an f-string.
FormatOptional(x) == IF x.none THEN <<"None">> ELSE x.val

\* `resume or ""`
OrEmpty(text) == text

\* What load_document_on_startup returns.
PageResult(error_msg, q_value, session_uuid, chat_enabled, r, j) ==
    [error_msg |-> error_msg, q_value |-> q_value, session_uuid |-> session_uuid,
     chat_enabled |-> chat_enabled, resume |-> r, jd |-> j]

\* load_document_on_startup without the strip() of the parameter.
LoadDocumentByRawName(initialized, init_error, table, q, session_uuid, fault) ==
    IF ~initialized
    THEN PageResult(<<"**Error:** ">> \o FormatOptional(init_error), << >>,
                    session_uuid, FALSE, << >>, << >>)
    ELSE IF q = << >>
         THEN PageResult(<<"**Error:** 'q' parameter must be specified in the URL">>,
                         << >>, session_uuid, FALSE, << >>, << >>)
         ELSE LET result == get_document_by_name(table, q, fault) IN
              IF result.ret.none
              THEN PageResult(<<"**Error:** No document found with name '">> \o q \o <<"'">>,
                              q, session_uuid, FALSE, << >>, << >>)
              ELSE PageResult(<< >>, q, session_uuid, TRUE,
                              OrEmpty(result.ret.val[1]), OrEmpty(result.ret.val[2]))

\* load_document_on_startup(request), q being the request's "q" parameter
\* ("" when absent).
load_document_on_startup(initialized, init_error, table, q, session_uuid, fault) ==
    IF ~initialized
    THEN PageResult(<<"**Error:** ">> \o FormatOptional(init_error), << >>,
                    session_uuid, FALSE, << >>, << >>)
    ELSE LET q_param == Strip(q) IN
         IF q_param = << >>
         THEN PageResult(<<"**Error:** 'q' parameter must be specified in the URL">>,
                         << >>, session_uuid, FALSE, << >>, << >>)
         ELSE LET result == get_document_by_name(table, q_param, fault) IN
              IF result.raised
              THEN PageResult(<<"**Error:** Database error while retrieving document: ", "e">>,
                              q_param, session_uuid, FALSE, << >>, << >>)
              ELSE IF result.ret.none
              THEN PageResult(<<"**Error:** No document found with name '">> \o q_param
                                \o <<"'">>,
                              q_param, session_uuid, FALSE, << >>, << >>)
              ELSE PageResult(<< >>, q_param, session_uuid, TRUE,
                              OrEmpty(result.ret.val[1]), OrEmpty(result.ret.val[2]))

\* The environment variables startup_checks requires, in its order.
RequiredEnvVars ==
    <<"ANTHROPIC_API_KEY", "DATABASE_HOST", "DATABASE_PORT", "DATABASE_NAME",
      "DATABASE_USER", "DATABASE_PASSWORD">>

\* The lists of unset variables the model tries.
MissingVarLists == {<< >>, <<"ANTHROPIC_API_KEY">>, <<"DATABASE_HOST", "DATABASE_PASSWORD">>}
CheckOutcomes == {"ok", "false", "raise"}

\* The documents tables the model tries.
Doc(r, j) == <<r, j>>
DocumentTables ==
    { << >>,
      [n \in {<<"acme-swe">>} |-> Doc(<<"R1">>, <<"J1">>)],
      [n \in {<<"acme-swe">>, <<"b">>} |->
            IF n = <<"b">> THEN Doc(<<"R2">>, << >>) ELSE Doc(<<"R1">>, <<"J1">>)] }

\* The "q" parameters the model tries: absent, blank, known, padded, unknown.
QueryParams == {<< >>, <<" ">>, <<"acme-swe">>, <<" ", "acme-swe", "\n">>, <<"b">>,
                <<"nobody">>}

InitLoad ==
    /\ app_started = FALSE
    /\ app_initialized = FALSE
    /\ initialization_error = None
    /\ documents = << >>
    /\ page = None

\* The tables the documents table may hold when the server starts.
InitLoadAnyTable ==
    /\ app_started = FALSE
    /\ app_initialized = FALSE
    /\ initialization_error = None
    /\ documents \in DocumentTables
    /\ page = None

\* initialize_app, run once when the interface is created.
InitializeApp ==
    \E missing \in MissingVarLists, db \in CheckOutcomes, api \in CheckOutcomes,
       template_exists \in BOOLEAN :
        LET checked == startup_checks(missing, db, api, template_exists) IN
        /\ ~app_started
        /\ app_started' = TRUE
        /\ app_initialized' = checked[1]
        /\ initialization_error' = checked[2]
        /\ UNCHANGED <<documents, page>>
        /\ UNCHANGED <<storeVars, turnVars, promptVars, poolVars>>

\* A browser loads the page: on_load calls load_document_on_startup.
PageLoad ==
    \E q \in QueryParams, session_uuid \in Sessions, fault \in Faults :
        /\ app_started
        /\ page' = [none |-> FALSE, q |-> q, fault |-> fault,
                    out |-> load_document_on_startup(app_initialized, initialization_error,
                                                     documents, q, session_uuid, fault)]
        /\ UNCHANGED <<app_started, app_initialized, initialization_error, documents>>
        /\ UNCHANGED <<storeVars, turnVars, promptVars, poolVars>>

NextLoad == InitializeApp \/ PageLoad

(***************************************************************************)
(* main.py: one page's chat.  chat_function is a generator: it runs from   *)
(* one yield to the next, and its store calls are where other pages'       *)
(* writes interleave.                                                      *)
(***************************************************************************)

\* The guard "not message", without the strip().
IsEmptyMessage(m) == m = << >>

\* The guard of chat_function's first line: not message.strip()
IsBlankMessage(m) == Strip(m) = << >>

\* The page's session_uuid_state.
PageSession == "s1"

\* The messages the user may submit as the k-th turn: blank ones, and one that
\* tells the turns apart (with a leading blank, which is part of the message).
BlankMessages == {<< >>, <<" ", "\n">>}
Ordinal(k) == <<"1", "2", "3", "4", "5", "6", "7", "8">>[k]
TurnMessages(k) == {<<" ", "Hello", Ordinal(k)>>}
Messages(k) == BlankMessages \cup TurnMessages(k)
\* The faults a store call of the page may meet.
FaultsNow == IF faults < MaxFaults THEN Faults ELSE {"ok"}
FaultCount(fault) == IF fault = "ok" THEN 0 ELSE 1

\* created_at, set by the store on insert: the store's clock moves on between
\* one insert of this model and the next.
StoreClock(table) == Len(table) + 1
\* The texts the stream may deliver as its k-th chunk: an empty text, or a
\* text that tells the chunks apart.
Chunks(k) == {<< >>, <<"chunk", Ordinal(k)>>}

Errors == {"timeout"}
ExternalContents == {<<"e">>}
\* The (session, type) of the rows other writers add.
ExternalKinds == {<<"s1", "system">>, <<"s1", "user">>, <<"s1", "assistant">>,
                  <<"s2", "user">>}
DefaultTemplate ==
    Template(FALSE, <<Lit(<<"Resume: ">>), Tag("resume"), Lit(<<" Job: ">>), Tag("jd"),
                      Lit(<<" Contact: ">>), Tag("email")>>)

\* The entries of the trace.
AppendEvent(role, content, ok) == <<"append", role, content, ok>>
ReadEvent(ok) == <<"read", ok>>
ModelEvent(messages, prompt) == <<"model", messages, prompt>>
SnapshotEvent(transcript) == <<"snapshot", transcript>>

\* full_response = chunk
AccumulateOverwrites(acc, chunk) == chunk

\* full_response += chunk (main.py:173; chat_service.py:104)
Accumulate(acc, chunk) == acc \o chunk

\* history = [[message, None]]
WithNewTurnAlone(h, m) == <<<<m, None>>>>

\* history + [[message, None]]
WithNewTurn(h, m) == Append(h, <<m, None>>)

\* history[0][1] = full_response
WithResponseOnFirstTurn(h, text) == [h EXCEPT ![1] = <<h[1][1], Some(text)>>]

\* history[-1][1] = full_response
WithResponse(h, text) == [h EXCEPT ![Len(h)] = <<h[Len(h)][1], Some(text)>>]

InitTurn ==
    /\ chatbot = << >>
    /\ pc = "idle"
    /\ message = << >>
    /\ history = << >>
    /\ api_messages = << >>
    /\ system_prompt = << >>
    /\ full_response = << >>
    /\ stream_full = << >>
    /\ yielded = << >>
    /\ stream_ret = None
    /\ stream_state = "unstarted"
    /\ trace = << >>
    /\ turns = 0
    /\ externals = 0
    /\ faults = 0

InitPrompt ==
    /\ template_cache = None
    /\ template_file = DefaultTemplate
    /\ resume = <<"R1">>
    /\ jd = <<"J1">>

Init ==
    /\ InitStore
    /\ InitTurn
    /\ InitPrompt
    /\ InitLoad
    /\ InitPool

\* chat_function is called and runs up to the user message's save
\* (lines 144-149).  With a blank message the generator returns at once,
\* without a yield.
ChatSubmit ==
    \E m \in Messages(turns + 1), timestamp \in Times, fault \in FaultsNow :
        LET r == SaveMessage(chats, PageSession, "user", m, timestamp,
                             StoreClock(chats), fault) IN
        /\ pc = "idle"
        /\ message' = m
        /\ history' = chatbot
        /\ IF IsBlankMessage(m)
           THEN /\ pc' = "done"
                /\ UNCHANGED <<chats, trace, turns, faults>>
           ELSE /\ turns < MaxTurns
                /\ turns' = turns + 1
                /\ faults' = faults + FaultCount(fault)
                /\ chats' = r.table
                /\ trace' = IF r.raised THEN trace
                            ELSE Append(trace, AppendEvent("user", m, r.ret))
                /\ pc' = IF r.raised THEN "crashed" ELSE "saved"
        /\ UNCHANGED <<chatbot, api_messages, system_prompt, full_response, stream_full,
                       yielded, stream_ret, stream_state, externals>>
        /\ UNCHANGED <<appended, lastRead, promptVars, loadVars, poolVars>>

\* chat_function from the history read to its first yield (lines 151-166).
LoadHistory ==
    \E fault \in FaultsNow :
        \E r \in HistoryResults(chats, PageSession, fault) :
            LET db_messages == r.ret
                formatted == format_message_history(
                                IF db_messages.none THEN << >> ELSE db_messages.val)
                p == ChatSystemPrompt(template_cache, template_file, resume, jd)
                shown == WithNewTurn(history, message)
            IN  /\ pc = "saved"
                /\ faults' = faults + FaultCount(fault)
                /\ IF r.raised
                   THEN /\ pc' = "crashed"
                        /\ UNCHANGED <<api_messages, system_prompt, template_cache,
                                       history, chatbot, trace>>
                   ELSE /\ pc' = "prompted"
                        /\ api_messages' = formatted
                        /\ system_prompt' = p.prompt
                        /\ template_cache' = p.cache
                        /\ history' = shown
                        /\ chatbot' = shown
                        /\ trace' = trace \o <<ReadEvent(~db_messages.none),
                                                SnapshotEvent(shown)>>
                /\ UNCHANGED <<message, full_response, stream_full, yielded, stream_ret,
                               stream_state, turns, externals>>
                /\ UNCHANGED <<storeVars, template_file, resume, jd, loadVars, poolVars>>

\* chat_function resumes after its first yield and starts stream_message
\* (lines 169-172; chat_service.py lines 93-102).
StreamOpen ==
    /\ pc = "prompted"
    /\ pc' = "streaming"
    /\ full_response' = << >>
    /\ stream_full' = << >>
    /\ stream_state' = "open"
    /\ trace' = Append(trace, ModelEvent(api_messages, system_prompt))
    /\ UNCHANGED <<chatbot, message, history, api_messages, system_prompt, yielded,
                   stream_ret, turns, externals, faults>>
    /\ UNCHANGED <<storeVars, promptVars, loadVars, poolVars>>

\* The stream delivers a text: stream_message yields it (lines 103-105) and
\* chat_function yields the transcript with it (lines 172-176).
StreamText ==
    \E text \in Chunks(Len(yielded) + 1) :
        LET acc == Accumulate(full_response, text)
            shown == WithResponse(history, acc)
        IN  /\ pc = "streaming"
            /\ Len(yielded) < MaxChunks
            /\ stream_full' = Accumulate(stream_full, text)
            /\ yielded' = Append(yielded, text)
            /\ full_response' = acc
            /\ history' = shown
            /\ chatbot' = shown
            /\ trace' = Append(trace, SnapshotEvent(shown))
            /\ UNCHANGED <<pc, message, api_messages, system_prompt, stream_ret,
                           stream_state, turns, externals, faults>>
            /\ UNCHANGED <<storeVars, promptVars, loadVars, poolVars>>

\* The model client raises: stream_message yields the error text and returns
\* (lines 109-113), chat_function yields the transcript with it.
StreamError ==
    \E e \in Errors :
        LET error_msg == ErrorMsg(e)
            acc == Accumulate(full_response, error_msg)
            shown == WithResponse(history, acc)
        IN  /\ pc = "streaming"
            /\ yielded' = Append(yielded, error_msg)
            /\ stream_ret' = Some(StreamErrorReturnValue(stream_full, error_msg))
            /\ stream_state' = "failed"
            /\ full_response' = acc
            /\ history' = shown
            /\ chatbot' = shown
            /\ trace' = Append(trace, SnapshotEvent(shown))
            /\ pc' = "streamed"
            /\ UNCHANGED <<message, api_messages, system_prompt, stream_full, turns,
                           externals, faults>>
            /\ UNCHANGED <<storeVars, promptVars, loadVars, poolVars>>

\* The stream ends: stream_message returns its accumulation (line 107).
StreamEnd ==
    /\ pc = "streaming"
    /\ stream_ret' = Some(StreamReturnValue(stream_full))
    /\ stream_state' = "ended"
    /\ pc' = "streamed"
    /\ UNCHANGED <<chatbot, message, history, api_messages, system_prompt, full_response,
                   stream_full, yielded, trace, turns, externals, faults>>
    /\ UNCHANGED <<storeVars, promptVars, loadVars, poolVars>>

\* chat_function saves the assistant message and returns (lines 178-181).
SaveAssistant ==
    \E timestamp \in Times, fault \in FaultsNow :
        LET r == SaveMessage(chats, PageSession, "assistant", full_response, timestamp,
                             StoreClock(chats), fault) IN
        /\ pc = "streamed"
        /\ faults' = faults + FaultCount(fault)
        /\ chats' = r.table
        /\ trace' = IF r.raised THEN trace
                    ELSE Append(trace, AppendEvent("assistant", full_response, r.ret))
        /\ pc' = IF r.raised THEN "crashed" ELSE "done"
        /\ UNCHANGED <<chatbot, message, history, api_messages, system_prompt,
                       full_response, stream_full, yielded, stream_ret, stream_state,
                       turns, externals>>
        /\ UNCHANGED <<appended, lastRead, promptVars, loadVars, poolVars>>

\* The call is over; the page is ready for the next message.
TurnDone ==
    /\ pc = "done"
    /\ pc' = "idle"
    /\ message' = << >>
    /\ history' = << >>
    /\ api_messages' = << >>
    /\ system_prompt' = << >>
    /\ full_response' = << >>
    /\ stream_full' = << >>
    /\ yielded' = << >>
    /\ stream_ret' = None
    /\ stream_state' = "unstarted"
    /\ trace' = << >>
    /\ UNCHANGED <<chatbot, turns, externals, faults>>
    /\ UNCHANGED <<storeVars, promptVars, loadVars, poolVars>>

\* Another page (or any other writer) saves a message.  The page's call
\* touches the store at three places only, so a write during streaming is
\* taken when the stream is over.
ExternalSave ==
    \E k \in ExternalKinds, c \in ExternalContents, timestamp \in Times :
        LET r == SaveMessage(chats, k[1], k[2], c, timestamp, StoreClock(chats), "ok") IN
        /\ pc \in {"idle", "saved", "streamed"}
        /\ externals < MaxExternal
        /\ externals' = externals + 1
        /\ chats' = r.table
        /\ UNCHANGED <<chatbot, pc, message, history, api_messages, system_prompt,
                       full_response, stream_full, yielded, stream_ret, stream_state,
                       trace, turns, faults>>
        /\ UNCHANGED <<appended, lastRead, promptVars, loadVars, poolVars>>

Next ==
    \/ ChatSubmit
    \/ LoadHistory
    \/ StreamOpen
    \/ StreamText
    \/ StreamError
    \/ StreamEnd
    \/ SaveAssistant
    \/ TurnDone
    \/ ExternalSave

\* One page chatting, with other pages writing to the store.
Spec == Init /\ [][Next]_vars

(***************************************************************************)
(* The prompt of a turn on its own: any resume and job description, and a  *)
(* template file that may be missing, malformed, or replaced while the     *)
(* server runs.                                                            *)
(***************************************************************************)
MalformedTemplate == Template(TRUE, <<Lit(<<"{{#resume}} never closed">>)>>)
TemplateFiles == {Missing, DefaultTemplate, MalformedTemplate}
Resumes == {<< >>, <<"R1">>, <<"R2">>, <<"R", "&", "D">>}
JobDescriptions == {<<"J1">>, <<"J", "<", "2">>}

InitSpecPrompt ==
    /\ InitStore /\ InitTurn /\ InitLoad /\ InitPool
    /\ template_cache = None
    /\ template_file \in TemplateFiles
    /\ resume \in Resumes
    /\ jd \in JobDescriptions

\* chat_function computes the system prompt of a turn (lines 157-162).
PromptOfTurn ==
    LET p == ChatSystemPrompt(template_cache, template_file, resume, jd) IN
    /\ pc' = "prompted"
    /\ system_prompt' = p.prompt
    /\ template_cache' = p.cache
    /\ UNCHANGED <<template_file, resume, jd>>
    /\ UNCHANGED <<chatbot, message, history, api_messages, full_response, stream_full,
                   yielded, stream_ret, stream_state, trace, turns, externals, faults>>
    /\ UNCHANGED <<storeVars, loadVars, poolVars>>

\* The template file is replaced, repaired or removed.
TemplateFileChanges ==
    \E file \in TemplateFiles :
        /\ template_file' = file
        /\ UNCHANGED <<template_cache, resume, jd>>
        /\ UNCHANGED <<storeVars, turnVars, loadVars, poolVars>>

\* Another page is loaded, with its own resume and job description.
PageDocumentChanges ==
    \E r \in Resumes, j \in JobDescriptions :
        /\ resume' = r
        /\ jd' = j
        /\ pc' = "idle"
        /\ system_prompt' = << >>
        /\ UNCHANGED <<template_cache, template_file>>
        /\ UNCHANGED <<chatbot, message, history, api_messages, full_response, stream_full,
                       yielded, stream_ret, stream_state, trace, turns, externals, faults>>
        /\ UNCHANGED <<storeVars, loadVars, poolVars>>

NextPrompt == PromptOfTurn \/ TemplateFileChanges \/ PageDocumentChanges

SpecPrompt == InitSpecPrompt /\ [][NextPrompt]_vars

\* The store's functions, called by any caller in any order.
SpecStore == Init /\ [][NextStore]_vars

\* Store functions called concurrently on the shared connection pool.
SpecPool == Init /\ [][NextPool]_vars

\* Startup and page loads.
InitSpecLoad == InitStore /\ InitTurn /\ InitPrompt /\ InitLoadAnyTable /\ InitPool
SpecLoad == InitSpecLoad /\ [][NextLoad]_vars


(***************************************************************************)
(* The claims.                                                             *)
(***************************************************************************)

\* The concatenation of a list of texts.
RECURSIVE Flatten(_)
Flatten(texts) == IF texts = << >> THEN << >> ELSE Head(texts) \o Flatten(Tail(texts))

EventsOf(kind) == {i \in 1..Len(trace) : trace[i][1] = kind}
AllBlank(m) == \A i \in 1..Len(m) : m[i] \in {" ", "\t", "\n"}
ErrorTexts == {<<"Error during streaming: ", e>> : e \in Errors}

\* C1: a call of chat_function with an empty or whitespace-only message ends
\* at once: the store, the transcript and its own record of store calls,
\* model calls and snapshots are what they were before the call.
C1_BlankMessageIsNoOp ==
    [][(pc = "idle" /\ pc' # "idle" /\ AllBlank(message'))
        => /\ pc' = "done"
           /\ chats' = chats
           /\ chatbot' = chatbot
           /\ trace' = << >>
           /\ stream_state' = "unstarted"]_vars

\* A blank message was submitted to a page that has a transcript and a store
\* with rows.
C1_Witness ==
    /\ pc = "done"
    /\ message = <<" ", "\n">>
    /\ Len(chatbot) >= 1
    /\ Len(chats) >= 1
    /\ trace = << >>

\* The message list of the model call just made, and the lists the rows of
\* the page's session of type user or assistant give, in the store's order.
PassedToModel == trace[Len(trace)][2]
ModelCallJustMade == pc = "streaming" /\ yielded = << >>
ReadSucceeded == \E i \in EventsOf("read") : trace[i][2]
ExpectedMessages ==
    LET rows == {chats[i] : i \in {j \in 1..Len(chats) :
                    /\ chats[j].session_uuid = PageSession
                    /\ chats[j].message_type \in {"user", "assistant"}}}
    IN  {[i \in 1..Len(h) |-> [role |-> h[i].message_type, content |-> h[i].contents]]
            : h \in OrderedListings(rows)}

C5_ErrorChunkThenStop ==
    stream_state = "failed" =>
        LET n == Len(yielded)
            text == Flatten(yielded)
        IN  /\ n >= 1
            /\ yielded[n] \in ErrorTexts
            /\ \A i \in 1..(n - 1) : yielded[i] \notin ErrorTexts
            /\ pc \in {"streamed", "done"}
            /\ Cardinality(EventsOf("model")) = 1
            /\ Cardinality(EventsOf("snapshot")) = 1 + n
            /\ full_response = text
            /\ pc = "done" =>
                /\ trace[Len(trace)][1] = "append"
                /\ trace[Len(trace)][2] = "assistant"
                /\ trace[Len(trace)][3] = text
                /\ trace[Len(trace)][4] =>
                    /\ chats[Len(chats)].message_type = "assistant"
                    /\ chats[Len(chats)].session_uuid = PageSession
                    /\ chats[Len(chats)].contents = text

\* The stream failed after two non-empty chunks and the assistant message was
\* saved.
C5_Witness ==
    /\ stream_state = "failed"
    /\ pc = "done"
    /\ Len(yielded) = 3
    /\ yielded[1] # << >>
    /\ yielded[2] # << >>
    /\ trace[Len(trace)][4]

\* The shape of a finished turn's trace: the user append first, then the
\* history read, then snapshots, then the assistant append, and no other
\* append.
TurnFinished == pc = "done" /\ ~AllBlank(message)
FinalSnapshot == trace[CHOOSE i \in EventsOf("snapshot") :
                            \A j \in EventsOf("snapshot") : j <= i][2]
FinalAssistantSlot == FinalSnapshot[Len(FinalSnapshot)][2]
C6_TraceShape ==
    /\ EventsOf("append") = {1, Len(trace)}
    /\ Len(trace) > 1
    /\ trace[1][2] = "user"
    /\ trace[1][3] = message
    /\ trace[Len(trace)][2] = "assistant"
    /\ Cardinality(EventsOf("read")) = 1
    /\ EventsOf("snapshot") # {}
    /\ \A i \in EventsOf("snapshot") : \A r \in EventsOf("read") : 1 < r /\ r < i
    /\ \A i \in EventsOf("snapshot") : i < Len(trace)

\* C6 as stated: the assistant append's content is the assistant text of the
\* final snapshot, which is not empty.
C6_OneUserAppendSnapshotsOneAssistantAppend ==
    TurnFinished =>
        /\ C6_TraceShape
        /\ ~FinalAssistantSlot.none
        /\ FinalAssistantSlot.val = trace[Len(trace)][3]
        /\ FinalAssistantSlot.val # << >>

\* C6, amended: the assistant append's content is the concatenation of the
\* chunks streamed (the error text included).  It is the assistant text of the
\* final snapshot when the stream yielded a chunk; when it yielded none, the
\* final snapshot's assistant slot is still None and the empty text is
\* appended.  The content is not empty exactly when some chunk is not.
C6_AppendsAroundSnapshots ==
    TurnFinished =>
        /\ C6_TraceShape
        /\ trace[Len(trace)][3] = Flatten(yielded)
        /\ IF yielded = << >>
           THEN FinalAssistantSlot.none
           ELSE FinalAssistantSlot = Some(trace[Len(trace)][3])
        /\ (trace[Len(trace)][3] # << >>) <=> (\E i \in 1..Len(yielded) : yielded[i] # << >>)

\* A turn finished whose stream yielded two non-empty chunks and then ended.
C6_Witness ==
    /\ TurnFinished
    /\ stream_state = "ended"
    /\ Len(yielded) = 2
    /\ yielded[1] # << >>
    /\ yielded[2] # << >>
    /\ Len(chatbot) = 2

\* C7: however stream_message ends, the value it returns is the
\* concatenation, in order, of the chunks it yielded.
C7_ReturnIsConcatenationOfChunks ==
    stream_state \in {"ended", "failed"} => stream_ret = Some(Flatten(yielded))


\* C9, on the store functions: whatever the fault, save_message and
\* get_session_history raise nothing; a faulty save returns False and leaves
\* the table as it is, a faulty read returns None.
StoreFunctionsNeverRaise ==
    \A fault \in Faults, s \in Sessions, ty \in MessageTypes :
        LET saved == SaveMessage(chats, s, ty, <<"t">>, 0, StoreClock(chats), fault) IN
        /\ ~saved.raised
        /\ fault # "ok" => (~saved.ret /\ saved.table = chats)
        /\ \A read \in HistoryResults(chats, s, fault) :
                /\ ~read.raised
                /\ fault # "ok" => read.ret = None

\* C9, on the turn: no store fault ends the call early; a call in progress can
\* always go on, and a finished turn has emitted its first snapshot and one
\* snapshot per chunk, whichever of its store calls failed.
TurnSurvivesStoreFaults ==
    /\ pc # "crashed"
    /\ pc = "saved" => ENABLED LoadHistory
    /\ pc = "prompted" => ENABLED StreamOpen
    /\ pc = "streaming" => ENABLED StreamEnd
    /\ pc = "streamed" => ENABLED SaveAssistant
    /\ TurnFinished =>
        /\ Cardinality(EventsOf("snapshot")) = 1 + Len(yielded)
        /\ Cardinality(EventsOf("model")) = 1
        /\ stream_state \in {"ended", "failed"}

\* C9: store failures are recoverable within the turn.  A step of the page in
\* which a save fails leaves the table unchanged.
C9_StoreFailuresAreRecoverable ==
    /\ [](StoreFunctionsNeverRaise /\ TurnSurvivesStoreFaults)
    /\ [][(faults' > faults /\ pc' \in {"saved", "done"}) => chats' = chats]_vars

\* A turn finished after its user append failed and two chunks were streamed.
C9_Witness ==
    /\ TurnFinished
    /\ ~trace[1][4]
    /\ Len(yielded) = 2
    /\ Cardinality(EventsOf("snapshot")) = 3

\* C4: the system prompt of a turn contains the resume and the job
\* description of the turn, as they are, whatever the state of the template.
C4_PromptEmbedsResumeAndJd ==
    pc = "prompted" => (Contains(system_prompt, resume) /\ Contains(system_prompt, jd))

\* The name a page load looks up: the parameter without the whitespace around it.
TrimmedName(q) ==
    LET keep == {i \in 1..Len(q) : q[i] \notin {" ", "\t", "\n"}}
    IN  IF keep = {} THEN << >>
        ELSE LET lo == CHOOSE i \in keep : \A j \in keep : i <= j
                 hi == CHOOSE i \in keep : \A j \in keep : j <= i
             IN  [k \in 1..(hi - lo + 1) |-> q[lo + k - 1]]

\* C8: a page load enables chat exactly when startup succeeded, the trimmed
\* name is not empty and the lookup returned its row; then the resume and the
\* job description returned are the stored ones and there is no error message.
\* When the name is unknown or the lookup fails, chat is disabled and the
\* error message contains the name.  After a failed startup no page load
\* enables chat.
C8_PageLoadEnablesChat ==
    ~page.none =>
        LET name == TrimmedName(page.q)
            found == page.fault = "ok" /\ name \in DOMAIN documents
            out == page.out
        IN  /\ out.chat_enabled <=> (app_initialized /\ name # << >> /\ found)
            /\ out.chat_enabled =>
                /\ out.resume = documents[name][1]
                /\ out.jd = documents[name][2]
                /\ out.error_msg = << >>
            /\ (app_initialized /\ name # << >> /\ ~found) =>
                /\ ~out.chat_enabled
                /\ Contains(out.error_msg, name)
            /\ ~app_initialized => ~out.chat_enabled

\* A page load with a padded name of a stored document, after a successful
\* startup.
C8_Witness ==
    /\ ~page.none
    /\ app_initialized
    /\ page.q = <<" ", "acme-swe", "\n">>
    /\ page.out.chat_enabled
    /\ page.out.resume = <<"R1">>

C11_CurrentMessageIsLastEntry ==
    ModelCallJustMade =>
        /\ PassedToModel # << >>
        /\ PassedToModel[Len(PassedToModel)] = [role |-> "user", content |-> message]

\* The snapshots of the call so far, in the order they were emitted.
Snapshots == SelectSeq(trace, LAMBDA e : e[1] = "snapshot")

\* The snapshots emitted so far are the first one and one per chunk yielded;
\* the first shows the message with an empty assistant slot after the prior
\* turns, the k-th after it shows the same prior turns and the message with
\* the concatenation of the first k chunks.
SnapshotsFollowChunks ==
    Snapshots # << >> =>
        LET first == Snapshots[1][2]
            prior == SubSeq(first, 1, Len(first) - 1)
        IN  /\ Len(Snapshots) = 1 + Len(yielded)
            /\ first # << >>
            /\ first[Len(first)] = <<message, None>>
            /\ \A k \in 1..Len(yielded) :
                    Snapshots[k + 1][2]
                        = Append(prior, <<message, Some(Flatten(SubSeq(yielded, 1, k)))>>)

\* The prior turns of the first snapshot are the transcript the call was
\* given.
FirstSnapshotKeepsInput ==
    (pc = "saved" /\ pc' = "prompted") =>
        trace'[Len(trace')] = <<"snapshot", Append(chatbot, <<message, None>>)>>

\* A chunk is followed at once by its snapshot: a step that yields a chunk
\* emits exactly one snapshot.
ChunkEmitsSnapshot ==
    Len(yielded') = Len(yielded) + 1 =>
        /\ Len(trace') = Len(trace) + 1
        /\ trace'[Len(trace')][1] = "snapshot"

\* C12: chat_function emits one snapshot per chunk, not batched: n chunks are
\* followed by exactly n snapshots after the first one (the user message with
\* an empty assistant slot); in the k-th, the prior turns are those of the
\* input transcript and the last turn holds the message and the concatenation
\* of the first k chunks.
C12_OneSnapshotPerChunk ==
    /\ []SnapshotsFollowChunks
    /\ [][FirstSnapshotKeepsInput /\ ChunkEmitsSnapshot]_vars

\* The second turn of a page: two non-empty chunks were streamed, and three
\* snapshots emitted, each with the first turn and its reply before the
\* current one.
C12_Witness ==
    /\ pc = "streaming"
    /\ Len(yielded) = 2
    /\ yielded[1] # << >>
    /\ yielded[2] # << >>
    /\ Len(Snapshots) = 3
    /\ Len(Snapshots[3][2]) = 2
    /\ ~Snapshots[3][2][1][2].none
    /\ Snapshots[3][2][2] = <<message, Some(yielded[1] \o yielded[2])>>

\* The clock of the page never went back: the rows carry timestamps that do
\* not decrease in the order they were saved.
ClockOrdered ==
    \A i \in 1..Len(chats) : \A j \in 1..Len(chats) :
        i < j => chats[i].timestamp <= chats[j].timestamp

\* The reply persisted for turn i of the transcript: the text of its assistant
\* slot, the empty text when the stream yielded nothing.
PersistedReply(i) == IF chatbot[i][2].none THEN << >> ELSE chatbot[i][2].val

\* C13: in a session whose turns run one after another, with no store failure,
\* no other writer and a clock that does not go back, the list passed to the
\* model on the n-th turn has 2n-1 entries that alternate user, assistant,
\* ..., user; the i-th user entry is the i-th message submitted and the i-th
\* assistant entry the reply persisted for turn i.
C13_ListAlternatesOverTurns ==
    (ModelCallJustMade /\ faults = 0 /\ externals = 0 /\ ClockOrdered) =>
        /\ Len(chatbot) = turns
        /\ Len(PassedToModel) = 2 * turns - 1
        /\ \A i \in 1..turns :
                /\ chatbot[i][1] \in TurnMessages(i)
                /\ PassedToModel[2 * i - 1] = [role |-> "user", content |-> chatbot[i][1]]
        /\ \A i \in 1..(turns - 1) :
                PassedToModel[2 * i] = [role |-> "assistant", content |-> PersistedReply(i)]

\* The model call of the second turn, after a first turn whose stream failed
\* after a chunk, all rows saved with the same timestamp.
C13_Witness ==
    /\ ModelCallJustMade
    /\ faults = 0
    /\ externals = 0
    /\ turns = 2
    /\ Len(chats) = 3
    /\ \A i \in 1..Len(chats) : chats[i].timestamp = 0
    /\ Len(PassedToModel) = 3
    /\ PassedToModel[2].content = <<"chunk", "1", "Error during streaming: ", "timeout">>

====
